---- MODULE Spec2Model ----
(***************************************************************************)
(* Model of package page (pager.go, options.go): a cursor-based pager that *)
(* drives a caller-supplied Loader.  Slices are sequences (a nil slice and *)
(* an empty slice are both <<>>), errors are sequences of strings (nil is  *)
(* <<>>), and fmt.Errorf("page %s: %w", key, err) is <<"page", key>>       *)
(* followed by the wrapped error.                                          *)
(***************************************************************************)
EXTENDS Integers, Sequences, FiniteSets, TLC

\* ------------------------------------------------------------------ bounds
\* Longest option list handed to New.
MaxOpts == 2
\* Most Load calls made on one pager.
MaxLoads == 3
\* Most calls of Next each of two goroutines sharing a pager makes.
MaxConcCalls == 1

\* ------------------------------------------------------- program constants
defaultPageSize == 100

\* --------------------------------------------------------------- universes
NoErr == <<>>
NoLoader == "nil"
TheLoader == "L"

\* Page keys a Loader may return; "" is the distinguished empty key.
Keys == {"", "a", "b"}
\* Pages a Loader may return.
Pages == {<<>>, <<1>>, <<2>>}
\* Errors a Loader may return.
LoadErrs == {<<"boom">>}
\* What a Load call may return: a page and a next key without an error, or an
\* error together with whatever page and key the Loader cares to return.
LoadResult(page, nextPageKey, err) ==
    [page |-> page, nextPageKey |-> nextPageKey, err |-> err]
LoadResults ==
    {LoadResult(pg, k, NoErr) : pg \in Pages, k \in Keys}
    \cup {LoadResult(<<>>, "", e) : e \in LoadErrs}
    \cup {LoadResult(<<1>>, "b", e) : e \in LoadErrs}
\* The answers a Loader that is a fixed map gives: one page and any next key,
\* or an error.
MapResults ==
    {LoadResult(<<1>>, k, NoErr) : k \in Keys} \cup {LoadResult(<<>>, "", <<"boom">>)}
\* The fewer answers of the Loader that two goroutines share.
NarrowResults ==
    {LoadResult(<<1>>, "a", NoErr), LoadResult(<<1>>, "b", NoErr),
     LoadResult(<<2>>, "", NoErr), LoadResult(<<>>, "", <<"boom">>)}

\* Arguments the caller may hand to the option constructors.
SizeArgs == {-1, 0, 2}
KeyArgs == {"", "a"}
LoaderArgs == {NoLoader, TheLoader}

\* The goroutines that may call the pager; the variable callers says which do.
Procs == {1, 2}

\* What a read of nextPageKey gives when it races with a write of it and finds
\* the pointer of one string with the length of the other.
TornKey == "<torn>"

VARIABLES
    opts,        \* the option list of the New call; dropped once the caller starts using the pager
    phase,       \* "new" before New ran, "run" when it returned a pager, "failed" when it returned an error
    newErr,      \* the error New returned
    pager,       \* the Pager struct New returned
    created,     \* the pager exactly as New returned it
    pc,          \* per caller: position in Next / All
    op,          \* per caller: the exported method it called ("Next", "All") or "none"
    allPages,    \* per caller: local allPages of All
    res,         \* per caller: locals page, nextPageKey, err of Next (the result of Load)
    nret,        \* per caller: what the last Next call returned
    ret,         \* per caller: what the last exported call returned to the caller
    before,      \* per caller: the pager as it was when the current Next call was entered
    base,        \* per caller: number of Load calls made before the current exported call
    prev,        \* per caller: what the exported call before the current one returned, and its base
    callers,     \* the goroutines that call the pager
    todo,        \* per caller: the calls of Next and of All it may still make
    script,      \* what the Loader is: free, narrow, or a fixed map from keys to answers
    loadLog      \* every Load call made on the loader so far, in call order

vars == <<opts, phase, newErr, pager, created, pc, op, allPages, res, nret, ret, before,
          base, prev, callers, todo, script, loadLog>>

\* ------------------------------------------------------------------ Pager
\* The zero Pager; also stands for the nil *Pager New returns with an error.
NilPager ==
    [pageSize |-> 0, nextPageKey |-> "", nextPageLoader |-> NoLoader,
     isFirstPageLoaded |-> FALSE, isFirstPageLoadedOnce |-> FALSE]

\* The struct literal New starts from.
DefaultPager ==
    [pageSize |-> defaultPageSize, nextPageKey |-> "", nextPageLoader |-> NoLoader,
     isFirstPageLoaded |-> FALSE, isFirstPageLoadedOnce |-> FALSE]

\* ---------------------------------------------------------------- options
\* An Option value: which constructor made it and the argument it closed over.
Option(kind, size, key, loader) ==
    [kind |-> kind, size |-> size, key |-> key, loader |-> loader]

Options ==
    {Option("WithPageSize", s, "", NoLoader) : s \in SizeArgs}
    \cup {Option("WithNextPageKey", 0, k, NoLoader) : k \in KeyArgs}
    \cup {Option("WithNextPageLoader", 0, "", l) : l \in LoaderArgs}

OptSeqs == UNION {[1..n -> Options] : n \in 0..MaxOpts}

WithNextPageKey(key, p) ==
    IF key = ""
    THEN [p |-> p, err |-> <<"next page key must not be empty">>]
    ELSE [p |-> [p EXCEPT !.nextPageKey = key], err |-> NoErr]

\* Mutant of WithPageSize: the check is pageSize < 0, so 0 is accepted.
WithPageSize_AllowZero(pageSize, p) ==
    IF pageSize < 0
    THEN [p |-> p, err |-> <<"page size must be positive">>]
    ELSE [p |-> [p EXCEPT !.pageSize = pageSize], err |-> NoErr]

WithPageSize(pageSize, p) ==
    IF pageSize <= 0
    THEN [p |-> p, err |-> <<"page size must be positive">>]
    ELSE [p |-> [p EXCEPT !.pageSize = pageSize], err |-> NoErr]

WithNextPageLoader(loader, p) ==
    IF loader = NoLoader
    THEN [p |-> p, err |-> <<"next page loader is required">>]
    ELSE [p |-> [p EXCEPT !.nextPageLoader = loader], err |-> NoErr]

\* Calling the Option closure o on the pager p.
ApplyOption(o, p) ==
    CASE o.kind = "WithPageSize" -> WithPageSize(o.size, p)
      [] o.kind = "WithNextPageKey" -> WithNextPageKey(o.key, p)
      [] o.kind = "WithNextPageLoader" -> WithNextPageLoader(o.loader, p)

\* Mutant of ApplyOpts: the loop goes on after a failing option and the error
\* of the last failing option is the one returned.
RECURSIVE ApplyOpts_KeepGoing(_, _, _)
ApplyOpts_KeepGoing(p, os, i) ==
    IF i > Len(os)
    THEN [p |-> p, err |-> NoErr]
    ELSE LET r == ApplyOption(os[i], p)
             rest == ApplyOpts_KeepGoing(r.p, os, i + 1)
         IN  IF rest.err # NoErr THEN [p |-> NilPager, err |-> rest.err]
             ELSE IF r.err # NoErr THEN [p |-> NilPager, err |-> r.err]
             ELSE rest

\* The loop of New over opts[i..]: the first failing option ends it.
RECURSIVE ApplyOpts(_, _, _)
ApplyOpts(p, os, i) ==
    IF i > Len(os)
    THEN [p |-> p, err |-> NoErr]
    ELSE LET r == ApplyOption(os[i], p)
         IN  IF r.err # NoErr
             THEN [p |-> NilPager, err |-> r.err]
             ELSE ApplyOpts(r.p, os, i + 1)

\* Mutant of NewPager: the check for a missing loader after the loop is gone.
NewPager_NoLoaderCheck(os) == ApplyOpts(DefaultPager, os, 1)

\* New(opts...) as a function of the option list: the pager and the error.
NewPager(os) ==
    LET r == ApplyOpts(DefaultPager, os, 1)
    IN  IF r.err # NoErr
        THEN r
        ELSE IF r.p.nextPageLoader = NoLoader
             THEN [p |-> NilPager, err |-> <<"next page loader is required">>]
             ELSE r

\* ------------------------------------------------------- Pager's methods
\* Mutant of IsAllLoaded: the test of isFirstPageLoaded is missing.
IsAllLoaded_KeyOnly(p) == p.nextPageKey = ""

IsAllLoaded(p) == p.nextPageKey = "" /\ p.isFirstPageLoaded

\* Mutant of pageLoadedAtLeastOnceTime: the Once never runs its function.
pageLoadedAtLeastOnceTime_Noop(p) == p

pageLoadedAtLeastOnceTime(p) ==
    IF p.isFirstPageLoadedOnce
    THEN p
    ELSE [p EXCEPT !.isFirstPageLoaded = TRUE, !.isFirstPageLoadedOnce = TRUE]

\* Mutant of LoadArgs: Load always gets the empty key.
LoadArgs_EmptyKey(p) == [key |-> "", size |-> p.pageSize]

\* The arguments Next passes to Load.
LoadArgs(p) == [key |-> p.nextPageKey, size |-> p.pageSize]

\* Mutant of NextAfterLoad: the key is stored before the error is looked at.
NextAfterLoad_StoreBeforeCheck(p, r) ==
    LET q == [p EXCEPT !.nextPageKey = r.nextPageKey]
    IN  IF r.err # NoErr
        THEN [p |-> q, page |-> <<>>, err |-> <<"page", q.nextPageKey>> \o r.err]
        ELSE [p |-> pageLoadedAtLeastOnceTime(q), page |-> r.page, err |-> NoErr]

\* Mutant of NextAfterLoad: an empty next key is not stored.
NextAfterLoad_SkipEmptyKey(p, r) ==
    IF r.err # NoErr
    THEN [p |-> p, page |-> <<>>, err |-> <<"page", p.nextPageKey>> \o r.err]
    ELSE [p |-> pageLoadedAtLeastOnceTime(
                    IF r.nextPageKey = "" THEN p
                    ELSE [p EXCEPT !.nextPageKey = r.nextPageKey]),
          page |-> r.page, err |-> NoErr]

\* Mutant of NextAfterLoad: the flag is set before the error is looked at.
NextAfterLoad_MarkOnError(p, r) ==
    LET q == pageLoadedAtLeastOnceTime(p)
    IN  IF r.err # NoErr
        THEN [p |-> q, page |-> <<>>, err |-> <<"page", q.nextPageKey>> \o r.err]
        ELSE [p |-> [q EXCEPT !.nextPageKey = r.nextPageKey],
              page |-> r.page, err |-> NoErr]

\* Mutant of NextAfterLoad: the next key is not stored.
NextAfterLoad_KeepKey(p, r) ==
    IF r.err # NoErr
    THEN [p |-> p, page |-> <<>>, err |-> <<"page", p.nextPageKey>> \o r.err]
    ELSE [p |-> pageLoadedAtLeastOnceTime(p), page |-> r.page, err |-> NoErr]

\* Next from the return of Load on: r holds Load's page, nextPageKey, err.
\* Gives the pager afterwards and the page and error Next returns.
NextAfterLoad(p, r) ==
    IF r.err # NoErr
    THEN [p |-> p, page |-> <<>>, err |-> <<"page", p.nextPageKey>> \o r.err]
    ELSE [p |-> pageLoadedAtLeastOnceTime([p EXCEPT !.nextPageKey = r.nextPageKey]),
          page |-> r.page, err |-> NoErr]

\* Next when IsAllLoaded holds on entry: return nil, nil.
NextWhenAllLoaded(p) == [p |-> p, page |-> <<>>, err |-> NoErr]

\* Mutant of AllAppend: the new page goes in front.
AllAppend_Prepend(acc, page) == page \o acc

\* All's append(allPages, page...).
AllAppend(acc, page) == acc \o page

\* Mutant of AllOnError: the pages gathered so far are dropped.
AllOnError_DropPartial(acc, err) == [items |-> <<>>, err |-> err]

\* All's return when Next failed: the pages so far and the error.
AllOnError(acc, err) == [items |-> acc, err |-> err]

\* All's return when the loop ends.
AllOnDone(acc) == [items |-> acc, err |-> NoErr]

\* ------------------------------------------------------------------- Init
NoRes == [page |-> <<>>, nextPageKey |-> "", err |-> NoErr]
NoRet == [op |-> "none", items |-> <<>>, err |-> NoErr]
NoNret == [page |-> <<>>, err |-> NoErr]
NoPrev == [op |-> "none", items |-> <<>>, err |-> NoErr, base |-> 0]
\* A caller that may make any number of calls.
Unlimited == 0 - 1
\* A Loader free to return any of LoadResults from any Load call.
NoScript == [mode |-> "free", map |-> <<>>]
\* A Loader that returns one of NarrowResults from any Load call.
NarrowScript == [mode |-> "narrow", map |-> <<>>]
\* A Loader that is a map from keys to answers, like the fakeLoader of the tests.
FixedScript(map) == [mode |-> "fixed", map |-> map]

\* Before New is called, whoever the callers and whatever the Loader.
InitPager ==
    /\ opts \in OptSeqs
    /\ phase = "new"
    /\ newErr = NoErr
    /\ pager = NilPager
    /\ created = NilPager
    /\ pc = [c \in Procs |-> "idle"]
    /\ op = [c \in Procs |-> "none"]
    /\ allPages = [c \in Procs |-> <<>>]
    /\ res = [c \in Procs |-> NoRes]
    /\ nret = [c \in Procs |-> NoNret]
    /\ ret = [c \in Procs |-> NoRet]
    /\ before = [c \in Procs |-> NilPager]
    /\ base = [c \in Procs |-> 0]
    /\ prev = [c \in Procs |-> NoPrev]
    /\ loadLog = <<>>

\* One goroutine uses the pager, with a Loader free to return anything.
Init ==
    /\ InitPager
    /\ callers = {1}
    /\ todo = [c \in Procs |-> [Next |-> Unlimited, All |-> Unlimited]]
    /\ script = NoScript

\* ---------------------------------------------------------------- actions
\* Who calls the pager and what the Loader is do not change.
Fixed == UNCHANGED <<callers, script>>

\* Caller c may make another call of method m ("Next" or "All"), and has one
\* fewer left after it.
TakeCall(c, m) ==
    /\ todo[c][m] # 0
    /\ todo' = [todo EXCEPT ![c][m] = IF @ = Unlimited THEN @ ELSE @ - 1]

\* pager, err := New(opts...)
New ==
    /\ phase = "new"
    /\ LET r == NewPager(opts)
       IN  /\ pager' = r.p
           /\ created' = r.p
           /\ newErr' = r.err
           /\ phase' = IF r.err = NoErr THEN "run" ELSE "failed"
    /\ UNCHANGED <<opts, pc, op, allPages, res, nret, ret, before, base, prev, todo, loadLog>>
    /\ Fixed

\* The keys another goroutine is about to store: its Load call has returned
\* without error and its Next has not finished.
WritesInFlight(c) ==
    {res[d].nextPageKey : d \in {e \in callers \ {c} :
                                    pc[e] = "next_after_load" /\ res[e].err = NoErr}}

\* What a read of p.nextPageKey by caller c may give. Next and All take no
\* lock: a read that races with another goroutine's store gives the old key,
\* the new key or a torn one. A single caller reads what the pager holds.
KeyRead(c) ==
    LET w == WritesInFlight(c) \ {pager.nextPageKey}
    IN  {pager.nextPageKey} \cup w \cup (IF w = {} THEN {} ELSE {TornKey})

\* The pager as caller c may see it.
View(c) == {[pager EXCEPT !.nextPageKey = k] : k \in KeyRead(c)}

\* Next returns (page, err) for caller c: to All's loop, or to the caller.
\* The locals of a call are cleared when the next call starts.
ReturnFromNext(c, page, err) ==
    /\ nret' = [nret EXCEPT ![c] = [page |-> page, err |-> err]]
    /\ IF op[c] = "All"
       THEN /\ pc' = [pc EXCEPT ![c] = "all_recv"]
            /\ UNCHANGED <<ret, op>>
       ELSE /\ pc' = [pc EXCEPT ![c] = "idle"]
            /\ ret' = [ret EXCEPT ![c] = [op |-> "Next", items |-> page, err |-> err]]
            /\ op' = [op EXCEPT ![c] = "none"]

\* Caller c calls p.Next(ctx).
CallNext(c) ==
    /\ phase = "run"
    /\ pc[c] = "idle"
    /\ TakeCall(c, "Next")
    /\ op' = [op EXCEPT ![c] = "Next"]
    /\ pc' = [pc EXCEPT ![c] = "next_check"]
    /\ before' = [before EXCEPT ![c] = pager]
    /\ base' = [base EXCEPT ![c] = Len(loadLog)]
    /\ ret' = [ret EXCEPT ![c] = NoRet]
    /\ nret' = [nret EXCEPT ![c] = NoNret]
    /\ prev' = [prev EXCEPT ![c] = [op |-> ret[c].op, items |-> ret[c].items,
                                    err |-> ret[c].err, base |-> base[c]]]
    /\ opts' = <<>>
    /\ UNCHANGED <<phase, newErr, created, pager, allPages, res, loadLog>>
    /\ Fixed

\* Mutant of NextCheck: the early return is missing.
NextCheck_NoEarlyReturn(c) ==
    /\ pc[c] = "next_check"
    /\ pc' = [pc EXCEPT ![c] = "next_load"]
    /\ UNCHANGED <<opts, phase, newErr, created, pager, op, allPages, res, nret, ret,
                   before, base, prev, todo, loadLog>>
    /\ Fixed

\* Next, line 61: if p.IsAllLoaded() { return nil, nil }
NextCheck(c) ==
    /\ pc[c] = "next_check"
    /\ \E v \in View(c) :
        IF IsAllLoaded(v)
        THEN LET r == NextWhenAllLoaded(pager)
             IN  /\ pager' = r.p
                 /\ ReturnFromNext(c, r.page, r.err)
        ELSE /\ pc' = [pc EXCEPT ![c] = "next_load"]
             /\ UNCHANGED <<pager, nret, ret, op>>
    /\ UNCHANGED <<opts, phase, newErr, created, allPages, res, before, base, prev, todo, loadLog>>
    /\ Fixed

\* Next, line 65: the call p.nextPageLoader.Load(ctx, p.nextPageKey, p.pageSize).
NextLoad(c) ==
    /\ pc[c] = "next_load"
    /\ Len(loadLog) < MaxLoads
    /\ \E v \in View(c) :
        loadLog' = Append(loadLog,
            [key |-> LoadArgs(v).key, size |-> LoadArgs(v).size,
             by |-> c, done |-> FALSE, page |-> <<>>, nextPageKey |-> "", err |-> NoErr])
    /\ pc' = [pc EXCEPT ![c] = "in_load"]
    /\ UNCHANGED <<opts, phase, newErr, created, pager, op, allPages, res, nret, ret, before, base, prev, todo>>
    /\ Fixed

\* The index in loadLog of the Load call caller c is waiting for.
Pending(c) == CHOOSE i \in 1..Len(loadLog) : loadLog[i].by = c /\ ~loadLog[i].done

\* What the Loader may return for key k.
Answers(k) ==
    CASE script.mode = "free" -> LoadResults
      [] script.mode = "narrow" -> NarrowResults
      [] script.mode = "fixed" -> {script.map[k]}

\* The Loader returns from the Load call of caller c.
Load(c) ==
    /\ pc[c] = "in_load"
    /\ \E r \in Answers(loadLog[Pending(c)].key) :
          /\ loadLog' = [loadLog EXCEPT ![Pending(c)] =
                [@ EXCEPT !.done = TRUE, !.page = r.page,
                          !.nextPageKey = r.nextPageKey, !.err = r.err]]
          /\ res' = [res EXCEPT ![c] = r]
    /\ pc' = [pc EXCEPT ![c] = "next_after_load"]
    /\ UNCHANGED <<opts, phase, newErr, created, pager, op, allPages, nret, ret, before, base, prev, todo>>
    /\ Fixed

\* Next, lines 66-71: the error return, or the store of the key and the flag.
NextFinish(c) ==
    /\ pc[c] = "next_after_load"
    /\ \E v \in View(c) :
        LET r == NextAfterLoad(pager, res[c])
        IN  /\ pager' = r.p
            \* the error text is made from a fresh read of p.nextPageKey
            /\ ReturnFromNext(c, r.page, NextAfterLoad(v, res[c]).err)
    /\ res' = [res EXCEPT ![c] = NoRes]
    /\ UNCHANGED <<opts, phase, newErr, created, allPages, before, base, prev, todo, loadLog>>
    /\ Fixed

\* Caller c calls p.All(ctx): line 76, allPages := make([]T, 0, p.pageSize).
CallAll(c) ==
    /\ phase = "run"
    /\ pc[c] = "idle"
    /\ TakeCall(c, "All")
    /\ op' = [op EXCEPT ![c] = "All"]
    /\ allPages' = [allPages EXCEPT ![c] = <<>>]
    /\ pc' = [pc EXCEPT ![c] = "all_loop"]
    /\ base' = [base EXCEPT ![c] = Len(loadLog)]
    /\ ret' = [ret EXCEPT ![c] = NoRet]
    /\ nret' = [nret EXCEPT ![c] = NoNret]
    /\ prev' = [prev EXCEPT ![c] = [op |-> ret[c].op, items |-> ret[c].items,
                                    err |-> ret[c].err, base |-> base[c]]]
    /\ opts' = <<>>
    /\ UNCHANGED <<phase, newErr, created, pager, res, before, loadLog>>
    /\ Fixed

\* All returns r to its caller.
ReturnFromAll(c, r) ==
    /\ ret' = [ret EXCEPT ![c] = [op |-> "All", items |-> r.items, err |-> r.err]]
    /\ op' = [op EXCEPT ![c] = "none"]
    /\ pc' = [pc EXCEPT ![c] = "idle"]

\* All, line 77: for !p.IsAllLoaded() { page, err := p.Next(ctx) ... }
AllLoop(c) ==
    /\ pc[c] = "all_loop"
    /\ \E v \in View(c) :
        IF IsAllLoaded(v)
        THEN /\ ReturnFromAll(c, AllOnDone(allPages[c]))
             /\ UNCHANGED before
        ELSE /\ pc' = [pc EXCEPT ![c] = "next_check"]
             /\ before' = [before EXCEPT ![c] = pager]
             /\ UNCHANGED <<ret, op>>
    /\ UNCHANGED <<opts, phase, newErr, created, pager, allPages, res, nret, base, prev, todo, loadLog>>
    /\ Fixed

\* Mutant of AllRecv: the loop also ends, without error, on an empty page.
AllRecv_StopOnEmptyPage(c) ==
    /\ pc[c] = "all_recv"
    /\ IF nret[c].err # NoErr
       THEN /\ ReturnFromAll(c, AllOnError(allPages[c], nret[c].err))
            /\ UNCHANGED allPages
       ELSE IF nret[c].page = <<>>
       THEN /\ ReturnFromAll(c, AllOnDone(allPages[c]))
            /\ UNCHANGED allPages
       ELSE /\ allPages' = [allPages EXCEPT ![c] = AllAppend(allPages[c], nret[c].page)]
            /\ pc' = [pc EXCEPT ![c] = "all_loop"]
            /\ UNCHANGED <<ret, op>>
    /\ UNCHANGED <<opts, phase, newErr, created, pager, res, nret, before, base, prev, todo, loadLog>>
    /\ Fixed

\* All, lines 79-82: Next has returned into the loop body.
AllRecv(c) ==
    /\ pc[c] = "all_recv"
    /\ IF nret[c].err # NoErr
       THEN /\ ReturnFromAll(c, AllOnError(allPages[c], nret[c].err))
            /\ UNCHANGED allPages
       ELSE /\ allPages' = [allPages EXCEPT ![c] = AllAppend(allPages[c], nret[c].page)]
            /\ pc' = [pc EXCEPT ![c] = "all_loop"]
            /\ UNCHANGED <<ret, op>>
    /\ UNCHANGED <<opts, phase, newErr, created, pager, res, nret, before, base, prev, todo, loadLog>>
    /\ Fixed

Next ==
    \/ New
    \/ \E c \in callers : CallNext(c)
    \/ \E c \in callers : NextCheck(c)
    \/ \E c \in callers : NextLoad(c)
    \/ \E c \in callers : Load(c)
    \/ \E c \in callers : NextFinish(c)
    \/ \E c \in callers : CallAll(c)
    \/ \E c \in callers : AllLoop(c)
    \/ \E c \in callers : AllRecv(c)

Spec == Init /\ [][Next]_vars

\* One goroutine uses the pager as it likes, or two goroutines each run Next
\* on the same pager, up to MaxConcCalls times.
InitConc ==
    /\ InitPager
    /\ callers \in {{1}, {1, 2}}
    /\ todo = [c \in Procs |-> IF callers = {1}
                                THEN [Next |-> Unlimited, All |-> Unlimited]
                                ELSE [Next |-> MaxConcCalls, All |-> 0]]
    /\ script = NarrowScript

SpecConc == InitConc /\ [][Next]_vars

\* One goroutine uses the pager, with a Loader that is a fixed map.
InitLive ==
    /\ InitPager
    /\ callers = {1}
    /\ todo = [c \in Procs |-> [Next |-> Unlimited, All |-> Unlimited]]
    /\ script \in {FixedScript(m) : m \in [Keys -> MapResults]}

\* What caller c does without its caller's doing: the steps inside Next and
\* All, and the return of the Loader.
Progress(c) ==
    \/ NextCheck(c)
    \/ NextLoad(c)
    \/ Load(c)
    \/ NextFinish(c)
    \/ AllLoop(c)
    \/ AllRecv(c)

\* Next and All run on the caller's goroutine until they return, and the
\* Loader returns from every Load call.
SpecLive == InitLive /\ [][Next]_vars /\ \A c \in Procs : WF_vars(Progress(c))

\* ------------------------------------------------- vocabulary of the claims
\* The caller of the specifications with one caller: the first goroutine.
Caller == CHOOSE c \in Procs : \A d \in Procs : c <= d

Running == phase = "run"

\* Load call i has returned without error.
Succeeded(i) == loadLog[i].done /\ loadLog[i].err = NoErr

\* Load call i has returned an error.
Failed(i) == loadLog[i].done /\ loadLog[i].err # NoErr

\* Some Load call of this pager has returned without error.
SomeLoadSucceeded == \E i \in 1..Len(loadLog) : Succeeded(i)

\* No Next call stands between the return of its Load call and its own return.
NoNextInFlight == \A c \in Procs : pc[c] # "next_after_load"

\* The caller holds what a Next call has just returned: in All's loop body, or
\* as the result of its own Next call.
NextReturned(c) ==
    \/ pc[c] = "all_recv"
    \/ pc[c] = "idle" /\ ret[c].op = "Next"

\* The caller holds what an All call has just returned.
AllReturned(c) == pc[c] = "idle" /\ ret[c].op = "All"

\* The fields that make a pager fully loaded, read directly.
FullyLoaded(p) == p.nextPageKey = "" /\ p.isFirstPageLoaded

\* The pages of Load calls i..j, concatenated in call order.
RECURSIVE ConcatPages(_, _)
ConcatPages(i, j) ==
    IF i > j THEN <<>> ELSE ConcatPages(i, j - 1) \o loadLog[j].page

\* The last Load call made.
LastLoad == loadLog[Len(loadLog)]

\* The option list is still at hand: New has returned, and the pager, if
\* there is one, is unused (no pager is built from an empty list).
OptsAtHand == phase = "failed" \/ (phase = "run" /\ opts # <<>>)

\* The positions of the options of one kind in the list os.
Positions(os, kind) == {i \in 1..Len(os) : os[i].kind = kind}

Last(S) == CHOOSE i \in S : \A j \in S : j <= i

\* The key the option list asks for: that of its last WithNextPageKey, else "".
ConfiguredKey(os) ==
    IF Positions(os, "WithNextPageKey") = {} THEN ""
    ELSE os[Last(Positions(os, "WithNextPageKey"))].key

\* The page size the option list asks for: that of its last WithPageSize, else 100.
ConfiguredSize(os) ==
    IF Positions(os, "WithPageSize") = {} THEN 100
    ELSE os[Last(Positions(os, "WithPageSize"))].size

\* Option o fails its own validation.
Invalid(o) ==
    \/ o.kind = "WithPageSize" /\ o.size <= 0
    \/ o.kind = "WithNextPageKey" /\ o.key = ""
    \/ o.kind = "WithNextPageLoader" /\ o.loader = NoLoader

\* ------------------------------------------------------------------ claims

\* C1: between calls, IsAllLoaded() is true exactly when nextPageKey is empty
\* and at least one Load call has returned without error; so it is false right
\* after construction, also with the default empty key.
C1_IsAllLoadedIff ==
    (Running /\ NoNextInFlight) =>
        (IsAllLoaded(pager) <=> (pager.nextPageKey = "" /\ SomeLoadSucceeded))

\* C1 witness: a pager that became fully loaded on its second page.
C1_Witness ==
    /\ Running /\ pc[Caller] = "idle"
    /\ Len(loadLog) = 2 /\ Succeeded(1) /\ Succeeded(2)
    /\ IsAllLoaded(pager)

\* C2: All on a fresh pager whose Load calls all succeed returns, with a nil
\* error, the pages concatenated in call order, and the pager is fully loaded.
C2_AllConcatenates ==
    (/\ AllReturned(Caller)
     /\ base[Caller] = 0
     /\ \A i \in 1..Len(loadLog) : Succeeded(i))
    =>
    (/\ ret[Caller].err = NoErr
     /\ ret[Caller].items = ConcatPages(1, Len(loadLog))
     /\ IsAllLoaded(pager))

\* C2 witness: All returned three pages, two of them with different items.
C2_Witness ==
    /\ AllReturned(Caller) /\ base[Caller] = 0
    /\ Len(loadLog) = 3 /\ \A i \in 1..3 : Succeeded(i)
    /\ loadLog[1].page = <<2>> /\ loadLog[3].page = <<1>>
    /\ ret[Caller].items = <<2, 1>>

\* C3: an All call that returns an error made its failing Load call last, all
\* its earlier Load calls succeeded, and it returns their pages in order.
C3_AllStopsAtError ==
    (AllReturned(Caller) /\ ret[Caller].err # NoErr)
    =>
    (/\ Len(loadLog) > base[Caller]
     /\ Failed(Len(loadLog))
     /\ \A i \in (base[Caller] + 1)..(Len(loadLog) - 1) : Succeeded(i)
     /\ ret[Caller].items = ConcatPages(base[Caller] + 1, Len(loadLog) - 1)
     /\ ret[Caller].err = <<"page", LastLoad.key>> \o LastLoad.err
     /\ Len(loadLog) - base[Caller]
          = Cardinality({i \in (base[Caller] + 1)..Len(loadLog) : Succeeded(i)}) + 1)

\* C3 witness: All failed on its third Load call after two non-empty pages.
C3_Witness ==
    /\ AllReturned(Caller) /\ ret[Caller].err # NoErr
    /\ base[Caller] = 0 /\ Len(loadLog) = 3
    /\ ret[Caller].items = <<1, 2>>

\* C4: a Next call whose Load call failed returns no items and an error naming
\* the key it passed to Load, and leaves nextPageKey and the flag as they were;
\* the Load call after a failed one gets the same key.
C4_NextErrorKeepsState ==
    /\ \A c \in Procs :
        (NextReturned(c) /\ nret[c].err # NoErr) =>
            /\ nret[c].page = <<>>
            /\ Len(loadLog) > 0 /\ Failed(Len(loadLog))
            /\ nret[c].err = <<"page", LastLoad.key>> \o LastLoad.err
            /\ pager.nextPageKey = before[c].nextPageKey
            /\ pager.isFirstPageLoaded = before[c].isFirstPageLoaded
    /\ \A i \in 1..(Len(loadLog) - 1) :
        Failed(i) => loadLog[i + 1].key = loadLog[i].key

\* C4 witness: Load failed at key "b" while returning another key, and the
\* retry asked for "b" again.
C4_Witness ==
    /\ Len(loadLog) = 3 /\ Failed(2) /\ loadLog[2].key = "b"
    /\ loadLog[2].nextPageKey = "b" /\ loadLog[2].page = <<1>>
    /\ loadLog[3].key = "b"
    /\ Succeeded(1) /\ loadLog[1].page = <<2>>

\* C5: Next on a fully loaded pager returns an empty page and a nil error
\* without a Load call and without touching the pager; a fully loaded pager
\* stays fully loaded and its loader is not called again.
C5_FullyLoadedIsFinal ==
    /\ [](\A c \in Procs :
            (pc[c] = "idle" /\ ret[c].op = "Next" /\ FullyLoaded(before[c])) =>
                /\ ret[c].items = <<>> /\ ret[c].err = NoErr
                /\ Len(loadLog) = base[c]
                /\ pager = before[c])
    /\ [][(Running /\ FullyLoaded(pager)) =>
            (pager' = pager /\ loadLog' = loadLog)]_vars

\* C5 witness: Next returned on a pager that was already fully loaded.
C5_Witness ==
    /\ pc[Caller] = "idle" /\ ret[Caller].op = "Next"
    /\ FullyLoaded(before[Caller]) /\ Len(loadLog) = 2

\* C6: a Next call on a pager that is not fully loaded and whose Load call
\* succeeds returns Load's items, stores Load's next key, and sets the flag.
C6_NextStoresResult ==
    \A c \in Procs :
        (NextReturned(c) /\ nret[c].err = NoErr /\ ~FullyLoaded(before[c])) =>
            /\ Len(loadLog) > 0 /\ Succeeded(Len(loadLog))
            /\ nret[c].page = LastLoad.page
            /\ pager.nextPageKey = LastLoad.nextPageKey
            /\ pager.isFirstPageLoaded

\* C6 witness: Next returned a non-empty page that came with the empty key.
C6_Witness ==
    /\ NextReturned(Caller) /\ nret[Caller].err = NoErr
    /\ ~FullyLoaded(before[Caller]) /\ before[Caller].nextPageKey = "a"
    /\ nret[Caller].page = <<2>> /\ LastLoad.nextPageKey = ""

\* C7: when the first Load call of a pager built without a key succeeds with
\* an empty next key, the pager is fully loaded after that one call, and All
\* made exactly that call, with key "", and returns its page.
C7_FirstEmptyKeyCompletes ==
    (/\ Running /\ NoNextInFlight
     /\ created.nextPageKey = ""
     /\ Len(loadLog) >= 1 /\ Succeeded(1) /\ loadLog[1].nextPageKey = "")
    =>
    (/\ IsAllLoaded(pager)
     /\ Len(loadLog) = 1
     /\ loadLog[1].key = ""
     /\ AllReturned(Caller) =>
            (ret[Caller].err = NoErr /\
             (base[Caller] = 0 => ret[Caller].items = loadLog[1].page)))

\* C7 witness: All returned after a single Load call that gave an empty key.
C7_Witness ==
    /\ AllReturned(Caller) /\ base[Caller] = 0
    /\ created.nextPageKey = ""
    /\ Len(loadLog) = 1 /\ Succeeded(1) /\ loadLog[1].nextPageKey = ""
    /\ ret[Caller].items = <<1>>

\* The key Load call i should get: the next key of the latest earlier Load
\* call that succeeded, or the key the pager was built with.
ExpectedKey(i) ==
    LET good == {j \in 1..(i - 1) : Succeeded(j)}
    IN  IF good = {} THEN created.nextPageKey ELSE loadLog[Last(good)].nextPageKey

\* C8: Load calls are made one at a time, each with the next key of the most
\* recent successful Load call or, before any, with the configured key (that
\* of WithNextPageKey, otherwise "").
C8_KeysFollowLoader ==
    /\ \A i \in 1..Len(loadLog) : loadLog[i].key = ExpectedKey(i)
    /\ \A i \in 1..(Len(loadLog) - 1) : loadLog[i].done
    /\ (Running /\ OptsAtHand) => created.nextPageKey = ConfiguredKey(opts)

\* C8 witness: a failed call lies between a successful call and the call
\* that uses its key, on a pager built with a key.
C8_Witness ==
    /\ created.nextPageKey = "a"
    /\ Len(loadLog) = 3 /\ Succeeded(1) /\ Failed(2)
    /\ loadLog[1].nextPageKey = "b" /\ loadLog[2].nextPageKey = ""
    /\ loadLog[3].key = "b"

C10_FlagSetOnce ==
    (Running /\ NoNextInFlight) =>
        (pager.isFirstPageLoaded <=> SomeLoadSucceeded)

\* C10 witness: the flag, set by a Load call that returned an empty page and
\* a non-empty key, is still true after two failed Load calls.
C10_Witness ==
    /\ Running /\ NoNextInFlight /\ Len(loadLog) = 3
    /\ Succeeded(1) /\ loadLog[1].page = <<>> /\ loadLog[1].nextPageKey = "a"
    /\ Failed(2) /\ Failed(3)
    /\ pager.isFirstPageLoaded

\* The option list gives no usable loader: it has no WithNextPageLoader, or
\* it has a WithNextPageLoader(nil).
NoLoaderGiven(os) ==
    \/ Positions(os, "WithNextPageLoader") = {}
    \/ \E i \in Positions(os, "WithNextPageLoader") : os[i].loader = NoLoader

\* The positions of the options of os that fail their validation.
InvalidPositions(os) == {i \in 1..Len(os) : Invalid(os[i])}

First(S) == CHOOSE i \in S : \A j \in S : i <= j

\* The message an option gives when it fails its validation.
MessageOf(o) ==
    CASE o.kind = "WithPageSize" -> <<"page size must be positive">>
      [] o.kind = "WithNextPageKey" -> <<"next page key must not be empty">>
      [] o.kind = "WithNextPageLoader" -> <<"next page loader is required">>

\* C11 as stated: every option list without a loader, or with a nil loader,
\* makes New fail with exactly "next page loader is required".
C11_AlwaysLoaderError ==
    (OptsAtHand /\ NoLoaderGiven(opts)) =>
        (phase = "failed" /\ newErr = <<"next page loader is required">>)

\* C11 (amended): every option list without a loader, or with a nil loader,
\* makes New fail and return no pager; the error is "next page loader is
\* required" unless a page size or page key option fails first.
C11_NoLoaderFails ==
    (OptsAtHand /\ NoLoaderGiven(opts)) =>
        /\ phase = "failed"
        /\ pager = NilPager
        /\ newErr # NoErr
        /\ (\/ InvalidPositions(opts) = {}
            \/ opts[First(InvalidPositions(opts))].kind = "WithNextPageLoader")
           => newErr = <<"next page loader is required">>

\* C11 witness: New failed for want of a loader on a list whose only option
\* is a valid page size.
C11_Witness ==
    /\ phase = "failed" /\ Len(opts) = 1
    /\ opts[1].kind = "WithPageSize" /\ opts[1].size = 2
    /\ newErr = <<"next page loader is required">>

\* C12: New returns no pager and the error of the first failing option when
\* some option fails; when none fails it fails, with "next page loader is
\* required", only if no loader was set, and otherwise returns a pager that
\* holds what the options asked for, with firstPageLoaded false.
C12_FirstFailingOption ==
    OptsAtHand =>
        IF InvalidPositions(opts) # {}
        THEN /\ phase = "failed"
             /\ pager = NilPager
             /\ newErr = MessageOf(opts[First(InvalidPositions(opts))])
        ELSE IF Positions(opts, "WithNextPageLoader") = {}
        THEN /\ phase = "failed"
             /\ pager = NilPager
             /\ newErr = <<"next page loader is required">>
        ELSE /\ phase = "run"
             /\ newErr = NoErr
             /\ ~pager.isFirstPageLoaded
             /\ pager.nextPageLoader = TheLoader
             /\ pager.nextPageKey = ConfiguredKey(opts)
             /\ pager.pageSize = ConfiguredSize(opts)

\* C12 witness: New failed on a list of two failing options of different
\* kinds, with the error of the first.
C12_Witness ==
    /\ phase = "failed" /\ Len(opts) = 2
    /\ opts[1].kind = "WithPageSize" /\ opts[1].size = 0
    /\ opts[2].kind = "WithNextPageKey" /\ opts[2].key = ""
    /\ newErr = <<"page size must be positive">>

\* The pages of the Load calls among i..j that succeeded, in call order.
RECURSIVE ConcatSucceeded(_, _)
ConcatSucceeded(i, j) ==
    IF i > j THEN <<>>
    ELSE ConcatSucceeded(i, j - 1) \o (IF Succeeded(j) THEN loadLog[j].page ELSE <<>>)

\* Caller c is in, or has just returned from, an All call made right after an
\* All call that failed.
AllAfterFailedAll(c) ==
    /\ op[c] = "All" \/ AllReturned(c)
    /\ prev[c].op = "All" /\ prev[c].err # NoErr

\* C13: an All call that follows a failed All call makes its first Load call
\* with the key of the Load call that failed, and when it succeeds to the end
\* the items of the two results, in that order, are the pages of all the
\* successful Load calls of the two, each once, in call order.
C13_ResumeAfterError ==
    \A c \in callers :
        AllAfterFailedAll(c) =>
            /\ base[c] >= 1 /\ Failed(base[c])
            /\ Len(loadLog) > base[c] => loadLog[base[c] + 1].key = loadLog[base[c]].key
            /\ (AllReturned(c) /\ ret[c].err = NoErr) =>
                    /\ \A i \in (base[c] + 1)..Len(loadLog) : Succeeded(i)
                    /\ prev[c].items \o ret[c].items
                            = ConcatSucceeded(prev[c].base + 1, Len(loadLog))

\* C13 witness: All failed at key "a" after one page; the next All fetched
\* key "a" again, got the last page, and the two results make up both pages.
C13_Witness ==
    /\ AllReturned(Caller) /\ ret[Caller].err = NoErr
    /\ prev[Caller].op = "All" /\ prev[Caller].err # NoErr /\ prev[Caller].base = 0
    /\ Len(loadLog) = 3 /\ loadLog[2].key = "a" /\ loadLog[3].key = "a"
    /\ prev[Caller].items = <<1>> /\ ret[Caller].items = <<2>>

\* Load call i succeeded with no items and a key for more.
EmptyPageWithKey(i) ==
    Succeeded(i) /\ loadLog[i].page = <<>> /\ loadLog[i].nextPageKey # ""

\* C14: after a successful Load call with no items and a non-empty next key
\* IsAllLoaded() is false and the Load call that follows gets that key; All
\* returns without error only when the latest successful Load call gave an
\* empty next key, and with an error only after a failed Load call.
C14_EmptyPageGoesOn ==
    /\ (Running /\ NoNextInFlight /\ Len(loadLog) > 0 /\ EmptyPageWithKey(Len(loadLog)))
            => ~IsAllLoaded(pager)
    /\ \A i \in 1..(Len(loadLog) - 1) :
            EmptyPageWithKey(i) => loadLog[i + 1].key = loadLog[i].nextPageKey
    /\ \A c \in callers :
            AllReturned(c) =>
                IF ret[c].err = NoErr
                THEN /\ SomeLoadSucceeded
                     /\ loadLog[Last({i \in 1..Len(loadLog) : Succeeded(i)})].nextPageKey = ""
                ELSE Len(loadLog) > base[c] /\ Failed(Len(loadLog))

\* C14 witness: All went on after an empty page that came with key "a" and
\* returned the page that followed.
C14_Witness ==
    /\ AllReturned(Caller) /\ ret[Caller].err = NoErr /\ base[Caller] = 0
    /\ Len(loadLog) = 2 /\ EmptyPageWithKey(1) /\ loadLog[1].nextPageKey = "a"
    /\ loadLog[2].key = "a" /\ ret[Caller].items = <<1>>

\* C16: once a Load call has returned without error, no later Load call gets
\* the empty key; a pager built without a key makes its first Load call with
\* the empty key.
C16_EmptyKeyOnlyAtStart ==
    /\ \A i \in 1..Len(loadLog) :
            (\E j \in 1..(i - 1) : Succeeded(j)) => loadLog[i].key # ""
    /\ (created.nextPageKey = "" /\ Len(loadLog) >= 1) => loadLog[1].key = ""

\* C16 witness: the empty key was asked for twice, the first call failing,
\* and not again after the second call succeeded.
C16_Witness ==
    /\ created.nextPageKey = "" /\ Len(loadLog) = 3
    /\ Failed(1) /\ loadLog[2].key = "" /\ Succeeded(2)
    /\ loadLog[3].key = "b"

\* The Load calls still in progress.
InProgress == {i \in 1..Len(loadLog) : ~loadLog[i].done}

\* Load calls i < j both succeeded for the same key although no successful
\* Load call from i up to j returned that key.
FetchedTwice(i, j) ==
    /\ i < j /\ Succeeded(i) /\ Succeeded(j)
    /\ loadLog[i].key = loadLog[j].key
    /\ ~\E m \in i..(j - 1) : Succeeded(m) /\ loadLog[m].nextPageKey = loadLog[j].key

\* C15: with a single caller no key is loaded successfully twice unless the
\* Loader returned that key again, and one Load call is in progress at most;
\* with two callers (the witness) both may load the same key.
C15_OneCallerNoRefetch ==
    /\ Cardinality(InProgress) <= Cardinality(callers)
    /\ callers = {1} =>
        /\ Cardinality(InProgress) <= 1
        /\ \A i, j \in 1..Len(loadLog) : ~FetchedTwice(i, j)

\* C15 witness: two callers entered Next on the fresh pager, both called Load
\* with the key "" and got the same page, and the key stored last ("b")
\* replaced the one stored first ("a").
C15_Witness ==
    /\ callers = {1, 2}
    /\ \A c \in callers :
        /\ pc[c] = "idle" /\ ret[c].op = "Next" /\ ret[c].err = NoErr
        /\ before[c] = created
        /\ ret[c].items = <<1>>
    /\ Len(loadLog) = 2 /\ FetchedTwice(1, 2)
    /\ loadLog[1].by # loadLog[2].by
    /\ loadLog[1].key = "" /\ loadLog[1].nextPageKey = "a" /\ loadLog[2].nextPageKey = "b"
    /\ pager.nextPageKey = "b"

\* No end: the number of Load calls of a chain of keys that never ends.
Forever == 0 - 1

\* The Load calls a fixed-map Loader takes from key k to an error or an empty
\* next key, Forever when it takes more than fuel: a chain longer than the
\* number of keys has come back to a key and goes round.
RECURSIVE LoadsToEnd(_, _)
LoadsToEnd(k, fuel) ==
    IF fuel = 0 THEN Forever
    ELSE LET r == script.map[k]
         IN  IF r.err # NoErr \/ r.nextPageKey = "" THEN 1
             ELSE LET n == LoadsToEnd(r.nextPageKey, fuel - 1)
                  IN  IF n = Forever THEN Forever ELSE n + 1

\* The Load calls All has yet to make on pager p.
LoadsLeft(p) ==
    IF FullyLoaded(p) THEN 0 ELSE LoadsToEnd(p.nextPageKey, Cardinality(Keys))

\* Caller c is at the head of All's loop, the Loader reaches an end from the
\* pager's key, and the Load calls this takes are within MaxLoads.
AllCanEnd(c) ==
    /\ op[c] = "All" /\ pc[c] = "all_loop"
    /\ LoadsLeft(pager) # Forever
    /\ Len(loadLog) + LoadsLeft(pager) <= MaxLoads

\* The Load calls of the All call that caller c has returned from go down the
\* Loader's chain, one call per key, to its end.
AllWalkedChain(c) ==
    LET first == base[c] + 1
        last == Len(loadLog)
    IN  /\ \A i \in first..last :
            /\ loadLog[i].done
            /\ LoadResult(loadLog[i].page, loadLog[i].nextPageKey, loadLog[i].err)
                    = script.map[loadLog[i].key]
            /\ i < last => (Succeeded(i) /\ loadLog[i].nextPageKey # ""
                            /\ loadLog[i + 1].key = loadLog[i].nextPageKey)
            /\ \A j \in first..last : i # j => loadLog[i].key # loadLog[j].key
        /\ IF first > last THEN FullyLoaded(pager)
           ELSE /\ Failed(last) \/ loadLog[last].nextPageKey = ""
                /\ last - base[c] = LoadsToEnd(loadLog[first].key, Cardinality(Keys))

\* C17: with a Loader that is a fixed map, All returns whenever the Loader
\* reaches an empty next key or an error from the pager's key (and MaxLoads
\* allows the Load calls this takes); when it returns it has made one Load
\* call per key of that chain; on a chain that never ends it does not return.
C17_AllTerminatesIffChainEnds ==
    /\ \A c \in Procs : AllCanEnd(c) ~> AllReturned(c)
    /\ [](\A c \in Procs : AllReturned(c) => AllWalkedChain(c))

\* C17, the chain without end: All is still running after MaxLoads Load calls
\* on a Loader whose keys go round ("" to "a" to "b" to "a").
C17_StillRunningOnCycle ==
    /\ op[Caller] = "All" /\ base[Caller] = 0 /\ Len(loadLog) = MaxLoads
    /\ pc[Caller] = "next_load"
    /\ LoadsLeft(created) = Forever
    /\ script.map["b"].nextPageKey = "a"

\* C17 witness: All returned after walking a chain of three keys to its end.
C17_Witness ==
    /\ AllReturned(Caller) /\ base[Caller] = 0 /\ Len(loadLog) = 3
    /\ ret[Caller].err = NoErr /\ ret[Caller].items = <<1, 1, 1>>

====
